---- MODULE Spec2Model ----
(***************************************************************************)
(* Model of the speech-transcript framework: the text transforms and the   *)
(* statistics of Funion (funion_class.py), the run of main()               *)
(* (framework_app.py) and the run of the scraping script (NLP_scrape.py).  *)
(*                                                                         *)
(* A text is a sequence of characters, a character is a one-character      *)
(* string; the en dash and the em dash are written "endash" and "emdash",  *)
(* the double quote, the backslash and the backtick "dquote", "backslash"  *)
(* and "backtick".                                                         *)
(***************************************************************************)
EXTENDS Integers, Sequences, FiniteSets, TLC

\* ------------------------------------------------------------------------
\* Bounds of the model
\* ------------------------------------------------------------------------
MaxPieces == 3

MaxDocs == 2

\* ------------------------------------------------------------------------
\* Characters
\* ------------------------------------------------------------------------
\* string.punctuation
Punctuation ==
    {"!", "dquote", "#", "$", "%", "&", "'", "(", ")", "*", "+", ",", "-", ".",
     "/", ":", ";", "<", "=", ">", "?", "@", "[", "backslash", "]", "^", "_", "backtick",
     "{", "|", "}", "~"}

\* the characters str.split() and str.strip() treat as separators
Whitespace == {" ", "\t", "\n", "\r", "\f"}

UpperCase ==
    <<"A", "B", "C", "D", "E", "F", "G", "H", "I", "J", "K", "L", "M",
      "N", "O", "P", "Q", "R", "S", "T", "U", "V", "W", "X", "Y", "Z">>

LowerCase ==
    <<"a", "b", "c", "d", "e", "f", "g", "h", "i", "j", "k", "l", "m",
      "n", "o", "p", "q", "r", "s", "t", "u", "v", "w", "x", "y", "z">>

IsUpper(c) == \E i \in 1..Len(UpperCase) : UpperCase[i] = c

\* str.lower() on one character
LowerChar(c) ==
    IF IsUpper(c)
    THEN LowerCase[CHOOSE i \in 1..Len(UpperCase) : UpperCase[i] = c]
    ELSE c

\* ------------------------------------------------------------------------
\* str helpers
\* ------------------------------------------------------------------------
RECURSIVE SplitFrom(_, _, _)
\* scan text from position i with the token cur being built; a token ends
\* at a whitespace character and empty tokens are dropped
SplitFrom(text, i, cur) ==
    IF i > Len(text)
    THEN IF cur = <<>> THEN <<>> ELSE <<cur>>
    ELSE IF text[i] \in Whitespace
         THEN (IF cur = <<>> THEN <<>> ELSE <<cur>>) \o SplitFrom(text, i + 1, <<>>)
         ELSE SplitFrom(text, i + 1, Append(cur, text[i]))

RECURSIVE SplitKeepEmptyFrom(_, _, _)
\* text.split(" ") : every single space separates, empty tokens are kept
SplitKeepEmptyFrom(text, i, cur) ==
    IF i > Len(text)
    THEN <<cur>>
    ELSE IF text[i] = " "
         THEN <<cur>> \o SplitKeepEmptyFrom(text, i + 1, <<>>)
         ELSE SplitKeepEmptyFrom(text, i + 1, Append(cur, text[i]))

SplitKeepEmpty(text) == SplitKeepEmptyFrom(text, 1, <<>>)

\* text.split()
Split(text) == SplitFrom(text, 1, <<>>)

RECURSIVE Join(_, _)
\* sep.join(words)
Join(sep, words) ==
    IF words = <<>> THEN <<>>
    ELSE IF Len(words) = 1 THEN words[1]
    ELSE words[1] \o sep \o Join(sep, Tail(words))

RECURSIVE Strip(_)
\* str.strip(): drop leading and trailing whitespace
Strip(text) ==
    IF text = <<>> THEN <<>>
    ELSE IF text[1] \in Whitespace THEN Strip(Tail(text))
    ELSE IF text[Len(text)] \in Whitespace
         THEN Strip(SubSeq(text, 1, Len(text) - 1))
    ELSE text

RECURSIVE SumLen(_)
\* sum(len(word) for word in words)
SumLen(words) ==
    IF words = <<>> THEN 0 ELSE Len(words[1]) + SumLen(Tail(words))

\* ------------------------------------------------------------------------
\* Funion: the normalization transforms
\* ------------------------------------------------------------------------
\* Funion.to_lowercase
to_lowercase(text) == [i \in 1..Len(text) |-> LowerChar(text[i])]

\* Funion.remove_punctuation
remove_punctuation(text) == SelectSeq(text, LAMBDA c : c \notin Punctuation)

applause == <<"a", "p", "p", "l", "a", "u", "s", "e">>

\* the tokens remove_stop_words drops whatever the stop-word set is
NoiseTokens == {applause, <<"endash">>, <<"emdash">>}

\* Funion.remove_stop_words
remove_stop_words(text, stop_words) ==
    Join(<<" ">>, SelectSeq(Split(text),
                            LAMBDA word : /\ to_lowercase(word) \notin stop_words
                                          /\ to_lowercase(word) \notin NoiseTokens))

\* the transforms in the wrong order: stop words are dropped before the
\* punctuation is stripped
normalize_stop_words_first(text, stop_words) ==
    remove_punctuation(remove_stop_words(to_lowercase(text), stop_words))

\* Funion.load_text, lines 95-97: the normalization pipeline
normalize(text, stop_words) ==
    remove_stop_words(remove_punctuation(to_lowercase(text)), stop_words)

\* ------------------------------------------------------------------------
\* Funion: the statistics
\* ------------------------------------------------------------------------
RECURSIVE CounterSet(_)
\* a counter that records presence only
CounterSet(words) ==
    IF words = <<>> THEN <<>>
    ELSE LET rest == CounterSet(SubSeq(words, 1, Len(words) - 1))
             w    == words[Len(words)]
         IN  [k \in DOMAIN rest \cup {w} |-> IF k = w THEN 1 ELSE rest[k]]

RECURSIVE Counter(_)
\* collections.Counter(words): one increment per element, in order
Counter(words) ==
    IF words = <<>> THEN <<>>
    ELSE LET rest == Counter(SubSeq(words, 1, Len(words) - 1))
             w    == words[Len(words)]
         IN  [k \in DOMAIN rest \cup {w} |->
                IF k = w
                THEN (IF w \in DOMAIN rest THEN rest[w] ELSE 0) + 1
                ELSE rest[k]]

\* Funion.count_words
count_words(text) ==
    LET words == Split(text)
    IN  [wordcount |-> Counter(words), numwords |-> Len(words)]

\* the mean computed over text.split(" ")
calculate_word_length_split_space(text) ==
    LET words == SplitKeepEmpty(text)
    IN  IF words # <<>> THEN [num |-> SumLen(words), den |-> Len(words)]
        ELSE [num |-> 0, den |-> 1]

\* Funion.calculate_word_length; the quotient total_chars / len(words) is
\* kept as the fraction num/den, and the literal 0 is 0/1
calculate_word_length(text) ==
    LET words == Split(text)
    IN  IF words # <<>> THEN [num |-> SumLen(words), den |-> Len(words)]
        ELSE [num |-> 0, den |-> 1]

\* Funion.analyze_sentiment is TextBlob's polarity, a third-party score in
\* [-1, 1]: the scores it may give a text that has tokens (a text without
\* tokens scores 0)
Polarity == {-1, 1}

\* ------------------------------------------------------------------------
\* Stop words
\* ------------------------------------------------------------------------
\* words of nltk's stopwords.words('english')
EnglishStopWords == {<<"a">>, <<"i">>, <<"t">>, <<"d", "o", "n", "'", "t">>}

\* lines a stopword_file may hold
StopwordFileLines == {<<"b">>, <<"A", "b">>}

\* Funion.load_stop_words
load_stop_words(stopword_file) == EnglishStopWords \cup stopword_file

\* ------------------------------------------------------------------------
\* Input texts
\* ------------------------------------------------------------------------
Pieces ==
    {<<"A">>, <<"b">>, <<"t">>, <<"-">>, <<"'">>, <<".">>, <<" ">>, <<"\n">>,
     <<"endash">>, applause}

RECURSIVE Flatten(_)
Flatten(ps) == IF ps = <<>> THEN <<>> ELSE ps[1] \o Flatten(Tail(ps))

Texts ==
    {Flatten(ps) : ps \in UNION {[1..k -> Pieces] : k \in 0..MaxPieces}}

\* ------------------------------------------------------------------------
\* Documents: what a fetch may return, and the extraction strategies
\* ------------------------------------------------------------------------
None == "None"

\* r.content of a successful fetch: an HTML page is the sequence of its <p>
\* elements, each with the class of the <div> that holds it ("" when it is
\* in no classed <div>); a PDF is the sequence of its pages' texts
Contents ==
    { [kind |-> "html",
       parts |-> << [div |-> "", text |-> <<"I", " ", "b", ".">>],
                    [div |-> "govspeak", text |-> <<" ", "A", "b", "-", "b", "\n">>] >>],
      [kind |-> "pdf",
       parts |-> << [div |-> "", text |-> applause \o <<" ", "b">>],
                    [div |-> "", text |-> <<"T", "\n">>] >>] }

\* [p.get_text(strip=True) for p in container.find_all('p')]; a PDF payload
\* parsed as markup has no <p> element, so the text extracted is empty
ParagraphTexts(content, class) ==
    IF content.kind = "html"
    THEN LET ps == SelectSeq(content.parts,
                             LAMBDA p : class = None \/ p.div = class)
         IN  [i \in 1..Len(ps) |-> Strip(ps[i].text)]
    ELSE <<>>

\* soup.find("div", class_=class) or soup
Container(content, class) ==
    IF /\ content.kind = "html"
       /\ \E i \in 1..Len(content.parts) : content.parts[i].div = class
    THEN class
    ELSE None

\* Funion.simple_text_parser
simple_text_parser(content) ==
    [ok |-> TRUE, text |-> Join(<<" ">>, ParagraphTexts(content, None))]

\* NLP_scrape.extract_text_from_html
extract_text_from_html(content) ==
    [ok |-> TRUE, text |-> Join(<<" ">>, ParagraphTexts(content, None))]

\* extract_text_from_pdf (funion_parsers.py and NLP_scrape.py): PdfReader
\* raises on a payload that is no PDF
extract_text_from_pdf(content) ==
    IF content.kind = "pdf"
    THEN [ok |-> TRUE,
          text |-> Flatten([i \in 1..Len(content.parts) |-> content.parts[i].text])]
    ELSE [ok |-> FALSE, text |-> <<>>]

\* scrape_uk (funion_parsers.py and NLP_scrape.py)
scrape_uk(content) ==
    [ok |-> TRUE,
     text |-> Join(<<" ">>, ParagraphTexts(content, Container(content, "govspeak")))]

\* the call of the strategy named
RunStrategy(strategy, content) ==
    CASE strategy = "simple_text_parser"     -> simple_text_parser(content)
      [] strategy = "extract_text_from_html" -> extract_text_from_html(content)
      [] strategy = "extract_text_from_pdf"  -> extract_text_from_pdf(content)
      [] strategy = "scrape_uk"              -> scrape_uk(content)

\* ------------------------------------------------------------------------
\* Document descriptors
\* ------------------------------------------------------------------------
Filenames == {"usa_congress.txt", "india_president.txt"}

Labels == {None, "", "USA Congress"}

\* the parser arguments of main()'s load_text calls
Parsers == {None, "extract_text_from_pdf", "scrape_uk"}

\* the third field of an entry of speeches
Specials == {None, "scrape_uk"}

\* what the fetch of a document does: it fails (requests.get raises or
\* raise_for_status raises), or it returns a payload
NoContent == [kind |-> "none", parts |-> <<>>]

FetchResults == {[ok |-> FALSE, content |-> NoContent]}
                \cup {[ok |-> TRUE, content |-> c] : c \in Contents}

VARIABLES
    stop_words,   \* Funion.stop_words
    text,         \* the argument of the transform under study
    result,       \* the transform applied and what it returned
    driver,       \* "main" (framework_app.py) or "script" (NLP_scrape.py)
    n,            \* the number of configured documents
    data,         \* Funion.data, the registry
    files,        \* the files of output_folder: filename -> text
    log,          \* one record per document attempted, in order
    status        \* "running", "done", or "crashed" (uncaught exception)

vars == <<stop_words, text, result, driver, n, data, files, log, status>>

runvars == <<driver, n, data, files, log, status>>

NoResult == [op |-> "none", val |-> <<>>]

\* ------------------------------------------------------------------------
\* The transforms and the statistics, one at a time, on every input text
\* ------------------------------------------------------------------------
InitText ==
    /\ stop_words \in {load_stop_words(f) : f \in SUBSET StopwordFileLines}
    /\ text \in Texts
    /\ result = NoResult
    /\ driver = "none"
    /\ n = 0
    /\ data = <<>>
    /\ files = <<>>
    /\ log = <<>>
    /\ status = "done"

Normalize ==
    /\ result.op = "none"
    /\ result' = [op |-> "normalize", val |-> normalize(text, stop_words)]
    /\ UNCHANGED <<stop_words, text, runvars>>

RemovePunctuation ==
    /\ result.op = "none"
    /\ result' = [op |-> "remove_punctuation", val |-> remove_punctuation(text)]
    /\ UNCHANGED <<stop_words, text, runvars>>

CountWords ==
    /\ result.op = "none"
    /\ result' = [op |-> "count_words", val |-> count_words(text)]
    /\ UNCHANGED <<stop_words, text, runvars>>

CalculateWordLength ==
    /\ result.op = "none"
    /\ result' = [op |-> "calculate_word_length",
                  val |-> calculate_word_length(text)]
    /\ UNCHANGED <<stop_words, text, runvars>>

NextText ==
    \/ Normalize
    \/ RemovePunctuation
    \/ CountWords
    \/ CalculateWordLength

SpecText == InitText /\ [][NextText]_vars

\* ------------------------------------------------------------------------
\* Funion.load_text and NLP_scrape.fetch_and_save
\* ------------------------------------------------------------------------
\* label or filename
registry_key(label, filename) ==
    IF label \in {None, ""} THEN filename ELSE label

\* the strategy load_text runs on r.content
load_text_strategy(parser) ==
    IF parser # None THEN parser ELSE "simple_text_parser"

\* a dispatch that tries the special scraper before the PDF flag
fetch_and_save_strategy_special_first(special, is_pdf) ==
    IF special # None THEN special
    ELSE IF is_pdf THEN "extract_text_from_pdf"
    ELSE "extract_text_from_html"

\* the strategy fetch_and_save runs on r.content
fetch_and_save_strategy(special, is_pdf) ==
    IF is_pdf THEN "extract_text_from_pdf"
    ELSE IF special # None THEN special
    ELSE "extract_text_from_html"

\* the statistics bundle load_text builds
bundle_of(transcript, sentiment) ==
    [word_count  |-> count_words(transcript).wordcount,
     num_words   |-> count_words(transcript).numwords,
     word_length |-> calculate_word_length(transcript),
     sentiment   |-> sentiment]

\* the bundle field of a log record of a document that built no bundle
NoBundle ==
    [word_count |-> <<>>, num_words |-> 0,
     word_length |-> [num |-> 0, den |-> 1], sentiment |-> 0]

\* an insertion that keeps the entry a key already has
put_if_absent(registry, key, bundle) ==
    [k \in DOMAIN registry \cup {key} |->
        IF k \in DOMAIN registry THEN registry[k] ELSE bundle]

\* self.data[key] = bundle
put(registry, key, bundle) ==
    [k \in DOMAIN registry \cup {key} |-> IF k = key THEN bundle ELSE registry[k]]

\* Funion.save_transcript / NLP_scrape.save_transcript: open(..., "w")
save_transcript(storage, content, filename) ==
    [f \in DOMAIN storage \cup {filename} |->
        IF f = filename THEN content ELSE storage[f]]

\* how far a document gets: the fetch, the extraction and the write may
\* each raise
outcome_of(fetch_ok, extract_ok, store_ok) ==
    IF ~fetch_ok THEN "fetch_failed"
    ELSE IF ~extract_ok THEN "extract_failed"
    ELSE IF ~store_ok THEN "store_failed"
    ELSE "ok"

\* a load_text that touches the registry entry before it fetches
load_text_data_entry_first(registry, key, outcome, bundle) ==
    IF outcome \in {"ok", "store_failed"} THEN put(registry, key, bundle)
    ELSE put(registry, key, NoBundle)

\* the registry after load_text: the insertion of line 106 is reached when
\* the fetch and the extraction did not raise
load_text_data(registry, key, outcome, bundle) ==
    IF outcome \in {"ok", "store_failed"} THEN put(registry, key, bundle)
    ELSE registry

\* the storage after load_text: line 113 is the last statement
load_text_files(storage, filename, outcome, transcript) ==
    IF outcome = "ok" THEN save_transcript(storage, transcript, filename)
    ELSE storage

\* the storage after fetch_and_save: the extracted text is written as it is
fetch_and_save_files(storage, filename, outcome, transcript) ==
    IF outcome = "ok" THEN save_transcript(storage, transcript, filename)
    ELSE storage

\* ------------------------------------------------------------------------
\* The run of main() and the run of the script
\* ------------------------------------------------------------------------
Init ==
    /\ stop_words = load_stop_words({})
    /\ text = <<>>
    /\ result = NoResult
    /\ driver \in {"main", "script"}
    /\ n \in 1..MaxDocs
    /\ data = <<>>
    /\ files = <<>>
    /\ log = <<>>
    /\ status = "running"

\* one fun.load_text(...) call of main(); an exception it raises is caught
\* nowhere and ends the process
load_text ==
    /\ driver = "main"
    /\ status = "running"
    /\ Len(log) < n
    /\ \E filename \in Filenames, label \in Labels, parser \in Parsers,
          fetch \in FetchResults, store_ok \in BOOLEAN, polarity \in Polarity :
          LET strategy   == load_text_strategy(parser)
              extraction == IF fetch.ok THEN RunStrategy(strategy, fetch.content)
                            ELSE [ok |-> FALSE, text |-> <<>>]
              transcript == normalize(extraction.text, stop_words)
              sentiment  == IF Split(transcript) = <<>> THEN 0 ELSE polarity
              bundle     == bundle_of(transcript, sentiment)
              key        == registry_key(label, filename)
              outcome    == outcome_of(fetch.ok, extraction.ok, store_ok)
          IN  /\ data' = load_text_data(data, key, outcome, bundle)
              /\ files' = load_text_files(files, filename, outcome, transcript)
              /\ log' = Append(log,
                    [filename  |-> filename,
                     key       |-> key,
                     ref       |-> parser,
                     is_pdf    |-> FALSE,
                     fetch     |-> fetch,
                     outcome   |-> outcome,
                     strategy  |-> IF fetch.ok THEN strategy ELSE None,
                     extracted |-> extraction.text,
                     bundle    |-> IF outcome \in {"ok", "store_failed"}
                                   THEN bundle ELSE NoBundle,
                     reported  |-> IF outcome = "ok" THEN None ELSE "traceback"])
              /\ status' = IF outcome = "ok" THEN "running" ELSE "crashed"
    /\ UNCHANGED <<stop_words, text, result, driver, n>>

\* main() after its last load_text: pprint(fun.data), fun.plot_summary()
main_finish ==
    /\ driver = "main"
    /\ status = "running"
    /\ Len(log) = n
    /\ status' = "done"
    /\ UNCHANGED <<stop_words, text, result, driver, n, data, files, log>>

\* one iteration of "for s in speeches": fetch_and_save catches every
\* exception and prints the failure
fetch_and_save ==
    /\ driver = "script"
    /\ status = "running"
    /\ Len(log) < n
    /\ \E filename \in Filenames, special \in Specials, is_pdf \in BOOLEAN,
          fetch \in FetchResults, store_ok \in BOOLEAN :
          LET strategy   == fetch_and_save_strategy(special, is_pdf)
              extraction == IF fetch.ok THEN RunStrategy(strategy, fetch.content)
                            ELSE [ok |-> FALSE, text |-> <<>>]
              outcome    == outcome_of(fetch.ok, extraction.ok, store_ok)
          IN  /\ files' = fetch_and_save_files(files, filename, outcome,
                                               extraction.text)
              /\ log' = Append(log,
                    [filename  |-> filename,
                     key       |-> None,
                     ref       |-> special,
                     is_pdf    |-> is_pdf,
                     fetch     |-> fetch,
                     outcome   |-> outcome,
                     strategy  |-> IF fetch.ok THEN strategy ELSE None,
                     extracted |-> extraction.text,
                     bundle    |-> NoBundle,
                     reported  |-> IF outcome = "ok" THEN "saved" ELSE "failed"])
    /\ UNCHANGED <<stop_words, text, result, driver, n, data, status>>

\* the loop over speeches has no entry left
script_finish ==
    /\ driver = "script"
    /\ status = "running"
    /\ Len(log) = n
    /\ status' = "done"
    /\ UNCHANGED <<stop_words, text, result, driver, n, data, files, log>>

Next ==
    \/ load_text
    \/ main_finish
    \/ fetch_and_save
    \/ script_finish

Spec == Init /\ [][Next]_vars

\* ------------------------------------------------------------------------
\* Properties
\* ------------------------------------------------------------------------
Documents == 1..Len(log)

\* the documents of main() whose load_text reached the insertion of line 106
Inserted == {i \in Documents : driver = "main" /\ log[i].outcome \in {"ok", "store_failed"}}

MaxOf(S) == CHOOSE x \in S : \A y \in S : y <= x

RECURSIVE SumValues(_, _)
SumValues(f, S) ==
    IF S = {} THEN 0
    ELSE LET k == CHOOSE x \in S : TRUE IN f[k] + SumValues(f, S \ {k})

Occurrences(words, w) == Cardinality({i \in 1..Len(words) : words[i] = w})

\* no ASCII punctuation, no uppercase character, no token that is a stop
\* word or a noise token
IsNormalizedText(t, stops) ==
    /\ \A i \in 1..Len(t) : t[i] \notin Punctuation /\ ~IsUpper(t[i])
    /\ \A j \in 1..Len(Split(t)) : Split(t)[j] \notin (stops \cup NoiseTokens)

\* C1: when the fetch of a document fails, the failure is reported, the run
\* does not end with it, and a run that is over has attempted every
\* configured document.
C1_FetchFailureIsolated ==
    \A i \in Documents :
        log[i].outcome = "fetch_failed" =>
            /\ log[i].reported # None
            /\ status # "crashed"
            /\ (status = "done" => Len(log) = n)

\* C2: a step that processes a document whose fetch fails changes neither
\* the registry nor the storage.
C2_FailedFetchLeavesNoTrace ==
    [][(/\ Len(log') = Len(log) + 1
        /\ log'[Len(log')].outcome = "fetch_failed")
       => (data' = data /\ files' = files)]_vars

\* a fetch fails for a document whose key and filename an earlier document
\* has already filled
C2_Witness ==
    /\ driver = "main"
    /\ Len(log) = 2
    /\ log[1].outcome = "ok"
    /\ log[2].outcome = "fetch_failed"
    /\ log[2].key = log[1].key
    /\ log[2].filename = log[1].filename
    /\ data[log[2].key] = log[1].bundle
    /\ log[2].filename \in DOMAIN files

\* C3: the registry has exactly the keys (label, or filename without label)
\* of the documents inserted, and under each key the bundle of the latest
\* document inserted with that key.
C3_RegistryHoldsLatestPerKey ==
    driver = "main" =>
        /\ DOMAIN data = {log[i].key : i \in Inserted}
        /\ \A k \in DOMAIN data :
               data[k] = log[MaxOf({i \in Inserted : log[i].key = k})].bundle

\* two documents with the same label and different statistics, both loaded
C3_Witness ==
    /\ driver = "main"
    /\ Len(log) = 2
    /\ log[1].outcome = "ok"
    /\ log[2].outcome = "ok"
    /\ log[1].key = "USA Congress"
    /\ log[2].key = "USA Congress"
    /\ log[1].filename # log[2].filename
    /\ log[1].bundle # log[2].bundle
    /\ data["USA Congress"] = log[2].bundle

\* C4: when the storage write of load_text fails, the document's bundle is
\* in the registry under its key and the run goes on to the documents left.
C4_StorageFailureRecovered ==
    \A i \in Documents :
        (driver = "main" /\ log[i].outcome = "store_failed") =>
            /\ log[i].key \in DOMAIN data
            /\ status # "crashed"

\* C5: every text stored under a filename, by load_text or by
\* fetch_and_save, is Normalized Text.
C5_StoredTextIsNormalized ==
    \A f \in DOMAIN files : IsNormalizedText(files[f], stop_words)

\* C6: normalizing the output of the normalization pipeline gives that
\* output back, character for character.
C6_NormalizeIdempotent ==
    result.op = "normalize" => normalize(result.val, stop_words) = result.val

\* the pipeline changed the text and left at least two tokens
C6_Witness ==
    /\ result.op = "normalize"
    /\ result.val # text
    /\ Len(Split(result.val)) >= 2

\* C7: the values of the frequency table sum to the token count, its keys
\* are the tokens of the text, and each value is the number of occurrences
\* of its key among the tokens.
C7_CountsSumToTotal ==
    result.op = "count_words" =>
        LET wc    == result.val.wordcount
            words == Split(text)
        IN  /\ SumValues(wc, DOMAIN wc) = result.val.numwords
            /\ DOMAIN wc = {words[i] : i \in 1..Len(words)}
            /\ \A k \in DOMAIN wc : wc[k] = Occurrences(words, k)

\* a text in which a token occurs twice
C7_Witness ==
    /\ result.op = "count_words"
    /\ \E k \in DOMAIN result.val.wordcount : result.val.wordcount[k] >= 2

\* C8: the mean token length is 0 exactly when the token count is 0; it is
\* never a division by zero, and it is positive when there is a token.
C8_MeanZeroIffNoTokens ==
    result.op = "calculate_word_length" =>
        /\ result.val.den > 0
        /\ result.val.num >= 0
        /\ (result.val.num = 0 <=> count_words(text).numwords = 0)

\* a text of whitespace only
C8_Witness ==
    /\ result.op = "calculate_word_length"
    /\ text # <<>>
    /\ count_words(text).numwords = 0
    /\ result.val = [num |-> 0, den |-> 1]

\* C9: remove_punctuation removes every ASCII punctuation character but the
\* hyphen, and keeps every other character in order.
C9_HyphensPassThrough ==
    result.op = "remove_punctuation" =>
        result.val = SelectSeq(text, LAMBDA c : c \notin (Punctuation \ {"-"}))

\* the extractor the configuration of document i selects when the flag and
\* the strategy reference are read independently
GenericStrategy ==
    IF driver = "main" THEN "simple_text_parser" ELSE "extract_text_from_html"

\* the text of document i is the output of the one strategy run, and what
\* the document stored and registered was computed from it
ProcessedFromExtraction(i) ==
    /\ log[i].extracted = RunStrategy(log[i].strategy, log[i].fetch.content).text
    /\ (i = Len(log) /\ log[i].outcome = "ok") =>
           files[log[i].filename] =
               IF driver = "main" THEN normalize(log[i].extracted, stop_words)
               ELSE log[i].extracted
    /\ i \in Inserted =>
           log[i].bundle = bundle_of(normalize(log[i].extracted, stop_words),
                                     log[i].bundle.sentiment)

\* C10 as stated: no extractor runs after a failed fetch; after a successful
\* one exactly the extractor the configuration names runs: the generic one
\* without strategy and flag, the PDF one with the flag, the referenced one
\* with a strategy reference.
C10_StrategyByConfiguration ==
    \A i \in Documents :
        IF ~log[i].fetch.ok
        THEN log[i].strategy = None
        ELSE /\ (log[i].ref = None /\ ~log[i].is_pdf) => log[i].strategy = GenericStrategy
             /\ log[i].is_pdf => log[i].strategy = "extract_text_from_pdf"
             /\ log[i].ref # None => log[i].strategy = log[i].ref
             /\ ProcessedFromExtraction(i)

\* C10 amended: the flag is read first, a strategy reference selects its
\* strategy when the flag is not set.
C10_StrategyByConfigurationFlagFirst ==
    \A i \in Documents :
        IF ~log[i].fetch.ok
        THEN log[i].strategy = None
        ELSE /\ (log[i].ref = None /\ ~log[i].is_pdf) => log[i].strategy = GenericStrategy
             /\ log[i].is_pdf => log[i].strategy = "extract_text_from_pdf"
             /\ (log[i].ref # None /\ ~log[i].is_pdf) => log[i].strategy = log[i].ref
             /\ ProcessedFromExtraction(i)

\* a PDF fetched for a document that carries both the flag and a strategy
\* reference, extracted and saved
C10_Witness ==
    /\ driver = "script"
    /\ \E i \in Documents :
          /\ log[i].is_pdf
          /\ log[i].ref = "scrape_uk"
          /\ log[i].outcome = "ok"
          /\ log[i].strategy = "extract_text_from_pdf"
          /\ log[i].extracted # <<>>

====
